---- MODULE Spec2Model ----
(***************************************************************************)
(* Model of the Bitmap type of src/src/bitmap.rs (src/src/lib.rs holds the *)
(* same implementation): a fixed number of bits packed LSB-first into a    *)
(* Vec<u8>, with new / set / unset / get / get_bit_count /                 *)
(* get_bitmap_capacity.  A panic is modelled as an outcome of the call: a  *)
(* caller that catches the unwind still holds the instance and may go on   *)
(* calling it.                                                             *)
(***************************************************************************)
EXTENDS Integers, Sequences, FiniteSets, TLC

\* Largest bit_count passed to new (0 is included, so new(0) is exercised).
MaxBits == 9
\* How far beyond bit_count a caller's bit_index may lie.
MaxOver == 2

VARIABLES
    live,             \* TRUE once new() has returned an instance
    bit_count,        \* Bitmap.bit_count
    bitmap_capacity,  \* Bitmap.bitmap_capacity
    map,              \* Bitmap.map, a sequence of u8; map[b + 1] is byte b
    ret,              \* the outcome of the most recent call
    shadow,           \* history: per index, was the last set/unset a set
    twice             \* history: the last call repeated the call before it

vars == <<live, bit_count, bitmap_capacity, map, ret, shadow, twice>>

----------------------------------------------------------------------------
\* u8 arithmetic

RECURSIVE BitAnd(_, _)
BitAnd(a, b) ==
    IF a = 0 \/ b = 0 THEN 0
    ELSE (a % 2) * (b % 2) + 2 * BitAnd(a \div 2, b \div 2)

RECURSIVE BitOr(_, _)
BitOr(a, b) ==
    IF a = 0 THEN b
    ELSE IF b = 0 THEN a
    ELSE (IF a % 2 = 1 \/ b % 2 = 1 THEN 1 ELSE 0) + 2 * BitOr(a \div 2, b \div 2)

RECURSIVE BitXor(_, _)
BitXor(a, b) ==
    IF a = 0 THEN b
    ELSE IF b = 0 THEN a
    ELSE ((a + b) % 2) + 2 * BitXor(a \div 2, b \div 2)

\* !x on a u8
BitNot(a) == 255 - a

\* x << k on a u8 (k < 8 at every use; bits shifted out are lost)
Shl(a, k) == (a * (2 ^ k)) % 256

----------------------------------------------------------------------------
\* The expressions of new / set / unset / get

\* usize::div_ceil
DivCeilFloor(n, d) == n \div d
DivCeil(n, d) == IF n % d > 0 THEN (n \div d) + 1 ELSE n \div d

\* vec![0; bitmap_capacity]
ZeroVecOnes(cap) == [b \in 1..cap |-> 1]
ZeroVec(cap) == [b \in 1..cap |-> 0]

\* assert!(bit_count > 0)
NewAssertOmitted(n) == TRUE
NewAssert(n) == n > 0

\* assert!(bit_index < self.bit_count)
AssertInRangeInclusive(bit_index, count, cap) == bit_index <= count
AssertInRangeCapacity(bit_index, count, cap) == bit_index < 8 * cap
AssertInRange(bit_index, count, cap) == bit_index < count

\* bit_index / 8, the index into self.map
ByteIndex(bit_index) == bit_index \div 8

\* 1 << (bit_index % 8)
MaskMsbFirst(bit_index) == Shl(1, 7 - (bit_index % 8))
Mask(bit_index) == Shl(1, bit_index % 8)

\* byte.bitor_assign(1 << (bit_index % 8))
SetByteAssign(byte, bit_index) == Mask(bit_index)
SetByteToggle(byte, bit_index) == BitXor(byte, Mask(bit_index))
SetByte(byte, bit_index) == BitOr(byte, Mask(bit_index))

\* byte.bitand_assign(!(1 << (bit_index % 8)))
UnsetByteNotFirst(byte, bit_index) == BitAnd(byte, Shl(BitNot(1), bit_index % 8))
UnsetByteToggle(byte, bit_index) == BitXor(byte, Mask(bit_index))
UnsetByte(byte, bit_index) == BitAnd(byte, BitNot(Mask(bit_index)))

\* self.map[bit_index / 8] & (1 << (bit_index % 8)) == (1 << (bit_index % 8))
GetBit(m, bit_index) ==
    BitAnd(m[ByteIndex(bit_index) + 1], Mask(bit_index)) = Mask(bit_index)

----------------------------------------------------------------------------
\* Outcomes of a call

Outcome(op, arg, status, b, n) ==
    [op |-> op, arg |-> arg, status |-> status, bool |-> b, num |-> n]

\* The call repeats the previous one, and both returned normally.
Repeats(op, arg) == ret.op = op /\ ret.arg = arg /\ ret.status = "ok"

\* A panicking call: only the outcome is recorded.
Panics(op, arg, status) ==
    /\ ret' = Outcome(op, arg, status, FALSE, 0)
    /\ twice' = FALSE
    /\ UNCHANGED <<live, bit_count, bitmap_capacity, map, shadow>>

\* The arguments a caller passes to set / unset / get
Indices == 0..(bit_count + MaxOver)

----------------------------------------------------------------------------
Init ==
    /\ live = FALSE
    /\ bit_count = 0
    /\ bitmap_capacity = 0
    /\ map = << >>
    /\ ret = Outcome("none", 0, "ok", FALSE, 0)
    /\ shadow = << >>
    /\ twice = FALSE

\* Bitmap::new
New(n) ==
    /\ ~live
    /\ ret.op = "none"
    /\ IF ~NewAssert(n)
       THEN Panics("new", n, "assert_panic")
       ELSE /\ live' = TRUE
            /\ bit_count' = n
            /\ bitmap_capacity' = DivCeil(n, 8)
            /\ map' = ZeroVec(DivCeil(n, 8))
            /\ shadow' = [i \in 0..(n - 1) |-> FALSE]
            /\ ret' = Outcome("new", n, "ok", FALSE, 0)
            /\ twice' = FALSE

\* Bitmap::set
Set(bit_index) ==
    /\ live
    /\ IF ~AssertInRange(bit_index, bit_count, bitmap_capacity)
       THEN Panics("set", bit_index, "assert_panic")
       ELSE IF ~(ByteIndex(bit_index) < Len(map))
       THEN Panics("set", bit_index, "index_panic")
       ELSE /\ map' = [map EXCEPT ![ByteIndex(bit_index) + 1] = SetByte(@, bit_index)]
            /\ shadow' = [i \in DOMAIN shadow |-> IF i = bit_index THEN TRUE ELSE shadow[i]]
            /\ ret' = Outcome("set", bit_index, "ok", FALSE, 0)
            /\ twice' = Repeats("set", bit_index)
            /\ UNCHANGED <<live, bit_count, bitmap_capacity>>

\* Bitmap::unset
Unset(bit_index) ==
    /\ live
    /\ IF ~AssertInRange(bit_index, bit_count, bitmap_capacity)
       THEN Panics("unset", bit_index, "assert_panic")
       ELSE IF ~(ByteIndex(bit_index) < Len(map))
       THEN Panics("unset", bit_index, "index_panic")
       ELSE /\ map' = [map EXCEPT ![ByteIndex(bit_index) + 1] = UnsetByte(@, bit_index)]
            /\ shadow' = [i \in DOMAIN shadow |-> IF i = bit_index THEN FALSE ELSE shadow[i]]
            /\ ret' = Outcome("unset", bit_index, "ok", FALSE, 0)
            /\ twice' = Repeats("unset", bit_index)
            /\ UNCHANGED <<live, bit_count, bitmap_capacity>>

\* A get that clears the bit it reads.
GetDestructive(bit_index) ==
    /\ live
    /\ IF ~AssertInRange(bit_index, bit_count, bitmap_capacity)
       THEN Panics("get", bit_index, "assert_panic")
       ELSE IF ~(ByteIndex(bit_index) < Len(map))
       THEN Panics("get", bit_index, "index_panic")
       ELSE /\ map' = [map EXCEPT ![ByteIndex(bit_index) + 1] = UnsetByte(@, bit_index)]
            /\ ret' = Outcome("get", bit_index, "ok", GetBit(map, bit_index), 0)
            /\ twice' = Repeats("get", bit_index)
            /\ UNCHANGED <<live, bit_count, bitmap_capacity, shadow>>

\* Bitmap::get
Get(bit_index) ==
    /\ live
    /\ IF ~AssertInRange(bit_index, bit_count, bitmap_capacity)
       THEN Panics("get", bit_index, "assert_panic")
       ELSE IF ~(ByteIndex(bit_index) < Len(map))
       THEN Panics("get", bit_index, "index_panic")
       ELSE /\ ret' = Outcome("get", bit_index, "ok", GetBit(map, bit_index), 0)
            /\ twice' = Repeats("get", bit_index)
            /\ UNCHANGED <<live, bit_count, bitmap_capacity, map, shadow>>

\* Bitmap::get_bit_count
GetBitCount ==
    /\ live
    /\ ret' = Outcome("get_bit_count", 0, "ok", FALSE, bit_count)
    /\ twice' = Repeats("get_bit_count", 0)
    /\ UNCHANGED <<live, bit_count, bitmap_capacity, map, shadow>>

\* Bitmap::get_bitmap_capacity
GetBitmapCapacity ==
    /\ live
    /\ ret' = Outcome("get_bitmap_capacity", 0, "ok", FALSE, bitmap_capacity)
    /\ twice' = Repeats("get_bitmap_capacity", 0)
    /\ UNCHANGED <<live, bit_count, bitmap_capacity, map, shadow>>

Next ==
    \/ \E n \in 0..MaxBits : New(n)
    \/ \E bit_index \in Indices : Set(bit_index)
    \/ \E bit_index \in Indices : Unset(bit_index)
    \/ \E bit_index \in Indices : Get(bit_index)
    \/ GetBitCount
    \/ GetBitmapCapacity

Spec == Init /\ [][Next]_vars

----------------------------------------------------------------------------
\* Shorthands for the properties

\* The last call was op and returned normally.
Returned(op) == ret.op = op /\ ret.status = "ok"

\* The step is a call of op that returns normally.
Returns(op) == ret'.op = op /\ ret'.status = "ok"

\* The step is a call of op that panics.
Fails(op) == ret'.op = op /\ ret'.status # "ok"

InRange == 0..(bit_count - 1)

\* Bit k (from the least-significant end) of byte b of the storage,
\* computed by division instead of masks.
StorageBit(m, b, k) == (m[b + 1] \div (2 ^ k)) % 2

\* get(j) gives the same result on storages m1 and m2.  get reads only
\* byte j / 8, so equal bytes need no further comparison.
SameGet(m1, m2, j) ==
    \/ m1[ByteIndex(j) + 1] = m2[ByteIndex(j) + 1]
    \/ GetBit(m1, j) = GetBit(m2, j)

StructureUnchanged ==
    /\ live' = live
    /\ map' = map
    /\ bit_count' = bit_count
    /\ bitmap_capacity' = bitmap_capacity

----------------------------------------------------------------------------
\* C1: after new(n) and any sequence of set/unset calls, for every i < n,
\* get(i) is true exactly when bit (i mod 8) from the least-significant end
\* of storage byte (i div 8) is 1, and exactly when the most recent
\* set/unset call on i was a set (false if i was never touched).
C1_PackedEqualsAbstract ==
    live =>
        \A i \in InRange :
            /\ GetBit(map, i) = (StorageBit(map, i \div 8, i % 8) = 1)
            /\ GetBit(map, i) = shadow[i]

C1_Witness ==
    /\ Returned("unset")
    /\ bit_count = 9
    /\ shadow[8] /\ GetBit(map, 8) /\ map[2] = 1
    /\ shadow[7] /\ map[1] >= 128
    /\ ~shadow[0]

\* C2: after a successful set(i), get(i) is true and get(j) is as before
\* for every in-range j # i; on a freshly constructed bitmap every other bit
\* is false afterwards (set(8) leaves bit 7 false and only bit 8 true).
C2_SetFrame ==
    [][Returns("set") =>
        /\ GetBit(map', ret'.arg)
        /\ \A j \in InRange \ {ret'.arg} : SameGet(map', map, j)
        /\ Returned("new") => \A j \in InRange \ {ret'.arg} : ~GetBit(map', j)
      ]_vars

C2_Witness ==
    /\ Returned("set") /\ ret.arg = 8
    /\ bit_count = 9
    /\ GetBit(map, 8) /\ ~GetBit(map, 7)
    /\ GetBit(map, 6) /\ GetBit(map, 0)

\* C3: after a successful unset(i), get(i) is false and get(j) is as before
\* for every in-range j # i; set(i) followed by unset(i) gives get(i) = false
\* and every other bit as it was before the set.
C3_UnsetFrame ==
    /\ [][Returns("unset") =>
            /\ ~GetBit(map', ret'.arg)
            /\ \A j \in InRange \ {ret'.arg} : SameGet(map', map, j)
         ]_vars
    /\ [](live =>
            \A i \in InRange :
                LET afterSet == [map EXCEPT ![ByteIndex(i) + 1] = SetByte(@, i)]
                    afterUnset == [afterSet EXCEPT ![ByteIndex(i) + 1] = UnsetByte(@, i)]
                IN  /\ ~GetBit(afterUnset, i)
                    /\ \A j \in InRange \ {i} : SameGet(afterUnset, map, j))

C3_Witness ==
    /\ Returned("unset") /\ ret.arg = 7
    /\ bit_count = 9
    /\ ~GetBit(map, 7)
    /\ GetBit(map, 8) /\ GetBit(map, 6) /\ GetBit(map, 0)

\* C4: set(k), unset(k) and get(k) with k >= bit_count (k = bit_count
\* included) panic, and leave the storage, bit_count and the byte capacity
\* as they were.
C4_OutOfRangePanics ==
    [][(live /\ ret'.op \in {"set", "unset", "get"} /\ ret'.arg >= bit_count) =>
            /\ ret'.status # "ok"
            /\ StructureUnchanged
      ]_vars

C4_Witness ==
    /\ live
    /\ ret.op \in {"set", "unset", "get"}
    /\ ret.arg = bit_count
    /\ ret.status = "assert_panic"
    /\ bit_count = 9
    /\ map[1] # 0

\* C5: a freshly constructed bitmap new(bit_count), bit_count > 0, has
\* get(i) = false for every i < bit_count and every storage byte 0.
C5_FreshIsZero ==
    Returned("new") =>
        /\ \A i \in InRange : ~GetBit(map, i)
        /\ \A b \in 1..Len(map) : map[b] = 0

C5_Witness ==
    /\ Returned("new")
    /\ bit_count = 9
    /\ Len(map) = 2

\* C6: in every state after construction get_bit_count() is the bit_count
\* passed to new, get_bitmap_capacity() is ceil(bit_count / 8) and the
\* storage has that many bytes; none of the three changes afterwards.
C6_SizesFixed ==
    /\ [](live =>
            /\ 8 * bitmap_capacity >= bit_count
            /\ 8 * (bitmap_capacity - 1) < bit_count
            /\ Len(map) = bitmap_capacity
            /\ Returned("new") => bit_count = ret.arg
            /\ Returned("get_bit_count") => ret.num = bit_count
            /\ Returned("get_bitmap_capacity") => ret.num = bitmap_capacity)
    /\ [][live =>
            /\ bit_count' = bit_count
            /\ bitmap_capacity' = bitmap_capacity
            /\ Len(map') = Len(map)
         ]_vars

C6_Witness ==
    /\ Returned("get_bitmap_capacity")
    /\ ret.num = 2
    /\ bit_count = 9
    /\ map[1] # 0

\* C7: new(0) panics and yields no instance; construction succeeds only for
\* bit_count > 0.
C7_ZeroRejected ==
    /\ (ret.op = "new" /\ ret.arg = 0) => (ret.status = "assert_panic" /\ ~live)
    /\ live => bit_count > 0
    /\ Returned("new") => ret.arg > 0

C7_Witness ==
    /\ ret.op = "new" /\ ret.arg = 0
    /\ ret.status = "assert_panic"
    /\ ~live

\* C8: set(i) twice gives the same storage as set(i) once, and unset(i)
\* twice the same storage as unset(i) once.
C8_Idempotent ==
    [][(/\ ret.op \in {"set", "unset"}
        /\ ret.status = "ok"
        /\ ret'.op = ret.op
        /\ ret'.arg = ret.arg
        /\ ret'.status = "ok") => map' = map
      ]_vars

C8_Witness ==
    /\ twice
    /\ ret.op \in {"set", "unset"}
    /\ bit_count = 9
    /\ map[1] # 0

\* C9: get(i), get_bit_count() and get_bitmap_capacity() leave the storage,
\* bit_count and the byte capacity unchanged, and a repeated call returns
\* the same value.
C9_ReadsArePure ==
    [][Returns("get") \/ Returns("get_bit_count") \/ Returns("get_bitmap_capacity") =>
            /\ StructureUnchanged
            /\ (Returned(ret'.op) /\ ret.arg = ret'.arg) =>
                    (ret'.bool = ret.bool /\ ret'.num = ret.num)
      ]_vars

C9_Witness ==
    /\ twice
    /\ Returned("get") /\ ret.arg = 8 /\ ret.bool
    /\ bit_count = 9

\* C10: the padding bits of the last storage byte (indices k with
\* bit_count <= k < 8 * byte capacity) are 0 in every state; no call sets
\* or reads a bit at an index >= bit_count, and none indexes the storage
\* outside [0, byte capacity).
C10_PaddingZero ==
    live =>
        /\ \A k \in bit_count..(8 * bitmap_capacity - 1) :
                StorageBit(map, k \div 8, k % 8) = 0
        /\ ret.status # "index_panic"
        /\ (ret.op \in {"set", "unset", "get"} /\ ret.status = "ok") =>
                (ret.arg < bit_count /\ ret.arg \div 8 < bitmap_capacity)

C10_Witness ==
    /\ live
    /\ bit_count = 9
    /\ map[2] = 1 /\ map[1] = 255
    /\ ret.op = "set" /\ ret.arg = 10 /\ ret.status = "assert_panic"

====
